---- MODULE Spec2Model ----
(***************************************************************************)
(* Model of the NetSuite integration core of PAT-DemoDashboard:            *)
(*   - api/netsuite/_concurrency.js      the request executor              *)
(*   - composite_project_create RESTlet  the composite orchestrator        *)
(*   - api/netsuite/_oauth-m2m.js        the token cache                   *)
(* The three components share no state in the code, so each has its own    *)
(* specification over the same variables (ExecSpec, CompositeSpec,         *)
(* TokenSpec); the variables of the other two stay at their initial value. *)
(* RetrySpec, AttemptSpec and BatchSpec look at one call, or one batch,    *)
(* of the executor with more kinds of requestFn behaviour and options.     *)
(***************************************************************************)
EXTENDS Integers, Sequences, FiniteSets, TLC

\* ------------------------------------------------------------------ bounds
NumOps == 3              \* operations a run may submit
MaxBatch == 2            \* largest batch handed to executeBatch
NumInvs == 2             \* concurrent invocations of the RESTlet post handler
MaxTasks == 2            \* longest tasks array of a composite request
NumCallers == 2          \* concurrent getAccessToken callers
MaxTicks == 2            \* clock ticks of the token model
MaxBackoffRetries == 7   \* largest options.maxRetries of the backoff model
MaxExchanges == 2        \* requests to the token endpoint in the token model

\* ------------------------------------------------------- program constants
concurrencyLimit == 2    \* CONFIG.concurrencyLimit with NETSUITE_CONCURRENCY_LIMIT=2
CONFIG_maxRetries == 3   \* CONFIG.maxRetries
initialRetryDelay == 1000   \* CONFIG.initialRetryDelay, ms
maxRetryDelay == 32000      \* CONFIG.maxRetryDelay, ms

Ops == 1..NumOps
Null == <<>>
Some(x) == <<x>>

VARIABLES
  \* ---- request executor (_concurrency.js)
  opState,      \* per operation: idle | queued | running | sleeping | ok | failed
  queue,        \* p-limit's FIFO of operations waiting for a slot
  activeCount,  \* p-limit's count of slots in use
  maxRetries,   \* per operation: the maxRetries option of its call
  attempt,      \* per operation: the loop variable of the retry loop
  calls,        \* per operation: number of times requestFn was invoked
  lastError,    \* per operation: lastError of the retry loop
  outcome,      \* per operation: what the call settled with (result or thrown error)
  batchOf,      \* per operation: 0 for a direct call, else its batch (the batch's
                \* first operation names it)
  stats,        \* the shared counters
  script,       \* per operation: what requestFn does on its 1st, 2nd, ... invocation
                \* (<<>>: decided when the invocation settles)
  hist,         \* per operation: how its attempts settled, in order (history)
  batches,      \* per batch (named by its first operation): the failFast option
                \* and what the promise of executeBatch settled with
  lastStats,    \* what getStats() returned, if it was the latest step of the
                \* executor (history)
  priority,     \* per operation: options.priority of its call
  submitted,    \* the operations in the order of their calls (history)
  admitted,     \* the operations in the order p-limit started them (history)
  cancelled,    \* the operations whose caller has given them up (history)
  stalled,      \* the operations whose remote call never responds (history)
  opToken,      \* per operation: accessToken of its executeSuiteQL call
  lastHttp,     \* per operation: the HTTP response of its latest attempt
  sentStale,    \* the operations that sent a request with a token that
                \* getAccessToken would not have returned then (history)
  waited,       \* the backoff delays an operation has slept, in order, each
                \* with the value Math.random() returned for it (history)
  \* ---- composite RESTlet (composite_project_create)
  inv,          \* per invocation of post: its program counter, request and locals
  remoteProjects, \* internal ids of the project records that exist in NetSuite
  remoteTasks,  \* the project task records that exist: [id, company, index]
                \* (index: the position in the tasks array it was created from)
  \* ---- token cache (_oauth-m2m.js)
  now,          \* Date.now(), in ms
  tokenCache,   \* tokenCache.get('access_token'): Null or Some([token, expiresAt])
  caller,       \* per getAccessToken caller: its position and what it was given
  exchanges,    \* number of tokens the token endpoint has issued
  config,       \* the four required settings of process.env ("" if unset)
  started       \* number of requests sent to the token endpoint (history)

execVars == <<opState, queue, activeCount, maxRetries, attempt, calls,
              lastError, outcome, batchOf, stats, script, hist, batches>>

compVars == <<inv, remoteProjects, remoteTasks>>

tokenVars == <<now, tokenCache, caller, exchanges, config, started>>

sqlVars == <<opToken, lastHttp, sentStale, waited>>

obsVars == <<lastStats, priority, submitted, admitted, cancelled, stalled, sqlVars>>

vars == <<execVars, compVars, tokenVars, obsVars>>

\* --------------------------------------------------------------- executor
\* What one invocation of requestFn can do: resolve with a value, resolve
\* with a value that carries result.error.code, or reject with an error
\* (error.response.status, error.code, error.message).
NoStatus == 0
MkResult(errcode) ==
  [kind |-> "result", errcode |-> errcode, status |-> NoStatus, code |-> "", msg |-> "",
   attempts |-> 0]
MkError(status, code, msg) ==
  [kind |-> "error", errcode |-> "", status |-> status, code |-> code, msg |-> msg,
   attempts |-> 0]
NoError ==
  [kind |-> "none", errcode |-> "", status |-> NoStatus, code |-> "", msg |-> "",
   attempts |-> 0]

\* Line 129: new Error('SSS_REQUEST_LIMIT_EXCEEDED')
RateLimitError == MkError(NoStatus, "", "SSS_REQUEST_LIMIT_EXCEEDED")

\* The behaviours of requestFn the concurrent specification draws from.
ExecOutcomes ==
  { MkResult(""),
    MkError(503, "", "Service Unavailable"),
    MkError(400, "", "Bad Request") }

\* The behaviours of requestFn the scripted call of RetrySpec draws from.
AttemptOutcomes ==
  ExecOutcomes \cup
  { MkResult("SSS_REQUEST_LIMIT_EXCEEDED"),
    MkError(NoStatus, "ETIMEDOUT", "timeout"),
    MkError(NoStatus, "EPIPE", "broken pipe") }

\* The behaviours of requestFn the call of the single-call specification
\* AttemptSpec draws from: every status and code isRetryableError names,
\* others next to them, and the rate-limit signal as a result and as an error.
AllOutcomes ==
  AttemptOutcomes \cup
  { MkError(st, "", "http error") : st \in {401, 404, 429, 500, 501, 502, 504} } \cup
  { MkError(NoStatus, code, "network error") : code \in {"ECONNRESET", "ENOTFOUND"} } \cup
  { MkError(400, "", "SSS_REQUEST_LIMIT_EXCEEDED") }

retryableStatuses == {429, 500, 502, 503, 504}
retryableCodes == {"ECONNRESET", "ETIMEDOUT", "ENOTFOUND"}

\* Variant: every HTTP error status is taken for retryable.
isRetryableErrorAnyStatus(error) ==
  \/ error.status >= 400
  \/ error.code \in retryableCodes
  \/ error.msg = "SSS_REQUEST_LIMIT_EXCEEDED"

\* Variant: a DNS failure is not taken for retryable.
isRetryableErrorNoDNS(error) ==
  \/ error.status \in retryableStatuses
  \/ error.code \in {"ECONNRESET", "ETIMEDOUT"}
  \/ error.msg = "SSS_REQUEST_LIMIT_EXCEEDED"

\* Lines 77-96: isRetryableError(error, response), response = error.response
isRetryableError(error) ==
  \/ error.status \in retryableStatuses
  \/ error.code \in retryableCodes
  \/ error.msg = "SSS_REQUEST_LIMIT_EXCEEDED"

\* Line 122: the loop condition of the retry loop.
LoopContinues(att, mr) == att <= mr

\* Variant: the loop header does not count the attempt.
NextAttemptNotCounted(att) == att

\* Line 122: attempt++ of the loop header.
NextAttempt(att) == att + 1

\* Variant: the last permitted retry is not made.
ShouldRetryOneLess(att, mr, error) == att + 1 < mr /\ isRetryableError(error)

\* Line 147: retry only while attempts remain and the error is retryable.
ShouldRetry(att, mr, error) == att < mr /\ isRetryableError(error)

\* Variant: the attempts of the error message are one short.
FinalErrorOneShort(mr, err) ==
  [kind |-> "failure", errcode |-> "", status |-> NoStatus, code |-> "", msg |-> err.msg,
   attempts |-> mr]

\* Lines 169-171: the error thrown after the loop:
\* `Request failed after ${maxRetries + 1} attempts: ${lastError.message}`
FinalError(mr, err) ==
  [kind |-> "failure", errcode |-> "", status |-> NoStatus, code |-> "", msg |-> err.msg,
   attempts |-> mr + 1]

InitStats ==
  [totalRequests |-> 0, successfulRequests |-> 0, failedRequests |-> 0,
   retriedRequests |-> 0, queuedRequests |-> 0, activeRequests |-> 0]

\* No call of executeBatch.
NoBatch == [failFast |-> FALSE, onProgress |-> FALSE, status |-> "none",
            results |-> <<>>, error |-> NoError, completed |-> 0, progress |-> <<>>]

ExecInit ==
  /\ lastStats = Null
  /\ priority = [o \in Ops |-> "normal"]
  /\ submitted = <<>>
  /\ admitted = <<>>
  /\ cancelled = {}
  /\ stalled = {}
  /\ opToken = [o \in Ops |-> 0]
  /\ lastHttp = [o \in Ops |-> Null]
  /\ sentStale = {}
  /\ waited = <<>>
  /\ batches = [b \in Ops |-> NoBatch]
  /\ opState = [o \in Ops |-> "idle"]
  /\ queue = <<>>
  /\ activeCount = 0
  /\ maxRetries = [o \in Ops |-> 0]
  /\ attempt = [o \in Ops |-> 0]
  /\ calls = [o \in Ops |-> 0]
  /\ lastError = [o \in Ops |-> NoError]
  /\ outcome = [o \in Ops |-> NoError]
  /\ batchOf = [o \in Ops |-> 0]
  /\ stats = InitStats
  /\ script = [o \in Ops |-> <<>>]
  /\ hist = [o \in Ops |-> <<>>]

\* Ascending enumeration of a finite set of operations.
RECURSIVE SetToSeq(_)
SetToSeq(S) ==
  IF S = {} THEN <<>>
  ELSE LET m == CHOOSE x \in S : \A y \in S : x <= y
       IN <<m>> \o SetToSeq(S \ {m})

Min(S) == CHOOSE x \in S : \A y \in S : x <= y

\* Variant: the latest call is started first.
executeWithConcurrencyControlLastFirst(o, mr, fn) ==
  /\ opState[o] = "idle"
  /\ opState' = [opState EXCEPT ![o] = "queued"]
  /\ maxRetries' = [maxRetries EXCEPT ![o] = mr]
  /\ script' = [script EXCEPT ![o] = fn]
  /\ stats' = [stats EXCEPT !.totalRequests = @ + 1, !.queuedRequests = @ + 1]
  /\ queue' = <<o>> \o queue
  /\ UNCHANGED <<activeCount, attempt, calls, lastError, outcome, batchOf, hist, batches>>

\* Lines 106-115: the synchronous part of a call: the options are read, the
\* counters are bumped and limit(...) puts the function in p-limit's queue.
executeWithConcurrencyControl(o, mr, fn) ==
  /\ opState[o] = "idle"
  /\ opState' = [opState EXCEPT ![o] = "queued"]
  /\ maxRetries' = [maxRetries EXCEPT ![o] = mr]
  /\ script' = [script EXCEPT ![o] = fn]
  /\ stats' = [stats EXCEPT !.totalRequests = @ + 1, !.queuedRequests = @ + 1]
  /\ queue' = Append(queue, o)
  /\ UNCHANGED <<activeCount, attempt, calls, lastError, outcome, batchOf, hist, batches>>

\* The maxRetries a direct call of the concurrent specification runs with:
\* options.maxRetries = 0, or CONFIG.maxRetries when the option is absent.
MaxRetriesOptions == {0, CONFIG_maxRetries}

\* The maxRetries the call of the single-operation specification runs with.
AllMaxRetriesOptions == 0..CONFIG_maxRetries

\* Operations are numbered in the order in which they are submitted.
NextOps(n) == {o \in Ops : /\ opState[o] = "idle"
                           /\ Cardinality({p \in Ops : p < o /\ opState[p] = "idle"}) < n}

\* A direct call with options.maxRetries = 0.
ExecuteWithoutRetry ==
  \E o \in NextOps(1) : executeWithConcurrencyControl(o, 0, <<>>)

\* A direct call.
Execute ==
  \E o \in NextOps(1), mr \in MaxRetriesOptions :
    executeWithConcurrencyControl(o, mr, <<>>)

\* Lines 183-195: requestFns.map runs every callback up to its first await,
\* so all operations of the batch are submitted in index order in one step,
\* each with the default maxRetries (only metadata is passed).
executeBatch(S, failFast, onProgress) ==
  /\ S # {}
  /\ batches' = [batches EXCEPT ![Min(S)] =
                   [NoBatch EXCEPT !.failFast = failFast, !.onProgress = onProgress,
                                   !.status = "pending"]]
  /\ opState' = [o \in Ops |-> IF o \in S THEN "queued" ELSE opState[o]]
  /\ maxRetries' = [o \in Ops |-> IF o \in S THEN CONFIG_maxRetries ELSE maxRetries[o]]
  /\ stats' = [stats EXCEPT !.totalRequests = @ + Cardinality(S),
                            !.queuedRequests = @ + Cardinality(S)]
  /\ queue' = queue \o SetToSeq(S)
  /\ batchOf' = [o \in Ops |-> IF o \in S THEN Min(S) ELSE batchOf[o]]
  /\ UNCHANGED <<activeCount, attempt, calls, lastError, outcome, script, hist>>

\* A batch with the default options (failFast = false, onProgress = null).
ExecuteBatch == \E n \in 1..MaxBatch : executeBatch(NextOps(n), FALSE, FALSE)

\* The first batch of a run, in either mode, with or without a progress
\* callback (one that returns normally).
ExecuteBatchAnyMode ==
  /\ \A b \in Ops : batches[b].status = "none"
  /\ \E n \in 1..MaxBatch, failFast \in BOOLEAN, onProgress \in BOOLEAN :
       executeBatch(NextOps(n), failFast, onProgress)

\* The operations of batch b, and the index of operation o in requestFns.
OpsOf(b) == {o \in Ops : batchOf[o] = b}
IndexOf(o) == o - batchOf[o]

\* Lines 196-221: what the callback of requestFns.map returns for an
\* operation that has settled with state st and outcome out:
\* { success: true, data: result, index }, or
\* { success: false, error: { code: 'BATCH_ITEM_FAILED', message, index } }
\* with message = error.message, here <<attempts, lastError.message>>.
ItemOutcome(o, st, out) ==
  IF st = "ok"
    THEN [success |-> TRUE, data |-> Some(out), index |-> Some(IndexOf(o)), error |-> Null]
    ELSE [success |-> FALSE, data |-> Null, index |-> Null,
          error |-> Some([code |-> "BATCH_ITEM_FAILED",
                          message |-> <<out.attempts, out.msg>>,
                          index |-> IndexOf(o)])]

\* Lines 225-229: the array the promise of executeBatch resolves with once
\* every callback has returned: Promise.all gives the callbacks' values
\* (entries without a status, written status ""), Promise.allSettled gives
\* { status: 'fulfilled', value } for each.
BatchResults(b, failFast, st, out) ==
  [i \in 1..Cardinality(OpsOf(b)) |->
     IF failFast
       THEN [status |-> "", value |-> ItemOutcome(b + i - 1, st[b + i - 1], out[b + i - 1])]
       ELSE [status |-> "fulfilled",
             value |-> ItemOutcome(b + i - 1, st[b + i - 1], out[b + i - 1])]]

Settled(st) == st \in {"ok", "failed"}

\* Variant: a failed operation is not counted.
ReportedFailureUncounted(bt, o) ==
  LET n == IF opState'[o] = "failed" THEN bt.completed ELSE bt.completed + 1
      call == [completed |-> n, total |-> Cardinality(OpsOf(batchOf[o])),
               index |-> IndexOf(o),
               error |-> IF opState'[o] = "failed" THEN Some(outcome'[o]) ELSE Null]
  IN [bt EXCEPT !.completed = n,
                !.progress = IF bt.onProgress THEN Append(@, call) ELSE @]

\* Lines 197-207: the callback of operation o, which has settled, counts it
\* (completed++) and calls onProgress, if given, with
\* { completed, total: requestFns.length, index } and, after a failure, error.
Reported(bt, o) ==
  LET call == [completed |-> bt.completed + 1, total |-> Cardinality(OpsOf(batchOf[o])),
               index |-> IndexOf(o),
               error |-> IF opState'[o] = "failed" THEN Some(outcome'[o]) ELSE Null]
  IN [bt EXCEPT !.completed = @ + 1,
                !.progress = IF bt.onProgress THEN Append(@, call) ELSE @]

\* The batches once the callback of operation o has counted and reported it.
Progress(o) ==
  IF batchOf[o] = 0 \/ ~Settled(opState'[o]) THEN batches
  ELSE [batches EXCEPT ![batchOf[o]] = Reported(@, o)]

\* Variant: a failure rejects the batch in the default mode too.
BatchSettlesAlwaysFailFast(o) ==
  LET b == batchOf[o] IN
  batches' =
    IF b = 0 \/ ~Settled(opState'[o]) \/ batches[b].status # "pending"
      THEN Progress(o)
    ELSE IF opState'[o] = "failed"
      THEN [Progress(o) EXCEPT ![b].status = "rejected", ![b].error = outcome'[o]]
    ELSE IF \A p \in OpsOf(b) : Settled(opState'[p])
      THEN [Progress(o) EXCEPT ![b].status = "resolved",
                           ![b].results =
                             BatchResults(b, batches[b].failFast, opState', outcome')]
    ELSE Progress(o)

\* Variant: in failFast mode the batch fails with the error of the latest failure.
BatchSettlesLatestFailure(o) ==
  LET b == batchOf[o] IN
  batches' =
    IF b = 0 \/ ~Settled(opState'[o]) \/ batches[b].status \notin {"pending", "rejected"}
      THEN Progress(o)
    ELSE IF batches[b].failFast /\ opState'[o] = "failed"
      THEN [Progress(o) EXCEPT ![b].status = "rejected", ![b].error = outcome'[o]]
    ELSE IF batches[b].status = "pending" /\ \A p \in OpsOf(b) : Settled(opState'[p])
      THEN [Progress(o) EXCEPT ![b].status = "resolved",
                           ![b].results =
                             BatchResults(b, batches[b].failFast, opState', outcome')]
    ELSE Progress(o)

\* Lines 196-229: operation o has settled (its new state and outcome are in
\* opState' and outcome'): its callback reports it and returns, or throws in failFast mode,
\* which rejects Promise.all at once if it is still pending; when the last
\* callback has returned the promise of executeBatch resolves.
BatchSettles(o) ==
  LET b == batchOf[o] IN
  batches' =
    IF b = 0 \/ ~Settled(opState'[o]) \/ batches[b].status # "pending"
      THEN Progress(o)
    ELSE IF batches[b].failFast /\ opState'[o] = "failed"
      THEN [Progress(o) EXCEPT ![b].status = "rejected", ![b].error = outcome'[o]]
    ELSE IF \A p \in OpsOf(b) : Settled(opState'[p])
      THEN [Progress(o) EXCEPT ![b].status = "resolved",
                           ![b].results =
                             BatchResults(b, batches[b].failFast, opState', outcome')]
    ELSE Progress(o)

\* Variant: one function too many is let in.
SlotFreeOffByOne(active) == active <= concurrencyLimit

\* p-limit: a queued function may start only while fewer than
\* concurrencyLimit functions hold a slot (line 40).
SlotFree(active) == active < concurrencyLimit

\* p-limit, enqueue(): after a call to limit() the head of the queue is
\* started if a slot is free.  Lines 116-125: the started function moves
\* itself from queued to active and makes its first attempt.
Admit ==
  /\ queue # <<>>
  /\ SlotFree(activeCount)
  /\ activeCount' = activeCount + 1
  /\ opState' = [opState EXCEPT ![Head(queue)] = "running"]
  /\ attempt' = [attempt EXCEPT ![Head(queue)] = 0]
  /\ calls' = [calls EXCEPT ![Head(queue)] = @ + 1]
  /\ queue' = Tail(queue)
  /\ stats' = [stats EXCEPT !.queuedRequests = @ - 1, !.activeRequests = @ + 1]
  /\ UNCHANGED <<maxRetries, lastError, outcome, batchOf, script, hist, batches>>

\* p-limit, next(): once the function of operation o has settled with state
\* st and counters cnt, its slot is given back and the head of the queue, if
\* any, is started at once (lines 116-125 for that operation).
Settle(o, st, cnt) ==
  IF queue # <<>> /\ SlotFree(activeCount - 1)
    THEN /\ opState' = [opState EXCEPT ![o] = st, ![Head(queue)] = "running"]
         /\ attempt' = [attempt EXCEPT ![o] = 0, ![Head(queue)] = 0]
         /\ calls' = [calls EXCEPT ![Head(queue)] = @ + 1]
         /\ queue' = Tail(queue)
         /\ activeCount' = (activeCount - 1) + 1
         /\ stats' = [cnt EXCEPT !.queuedRequests = @ - 1, !.activeRequests = @ + 1]
    ELSE /\ opState' = [opState EXCEPT ![o] = st]
         /\ attempt' = [attempt EXCEPT ![o] = 0]
         /\ activeCount' = activeCount - 1
         /\ stats' = cnt
         /\ UNCHANGED <<calls, queue>>

\* Variant: a success does not decrement activeRequests.
AttemptSucceedsKeepsActive(o, res) ==
  /\ outcome' = [outcome EXCEPT ![o] = res]
  /\ lastError' = [lastError EXCEPT ![o] = NoError]
  /\ Settle(o, "ok",
            [stats EXCEPT !.successfulRequests = @ + 1,
                          !.retriedRequests = IF attempt[o] > 0 THEN @ + 1 ELSE @])

\* Lines 132-140: the attempt resolved with a usable result.
AttemptSucceeds(o, res) ==
  /\ outcome' = [outcome EXCEPT ![o] = res]
  /\ lastError' = [lastError EXCEPT ![o] = NoError]
  /\ Settle(o, "ok",
            [stats EXCEPT !.successfulRequests = @ + 1,
                          !.activeRequests = @ - 1,
                          !.retriedRequests = IF attempt[o] > 0 THEN @ + 1 ELSE @])

\* Variant: an operation that fails keeps its slot.
GiveUpKeepsSlot(o, err) ==
  /\ lastError' = [lastError EXCEPT ![o] = NoError]
  /\ outcome' = [outcome EXCEPT ![o] = FinalError(maxRetries[o], err)]
  /\ opState' = [opState EXCEPT ![o] = "failed"]
  /\ attempt' = [attempt EXCEPT ![o] = 0]
  /\ stats' = [stats EXCEPT !.failedRequests = @ + 1, !.activeRequests = @ - 1]
  /\ UNCHANGED <<calls, queue, activeCount>>

\* Variant: an operation that fails after a retry is counted as retried.
GiveUpCountsRetried(o, err) ==
  /\ lastError' = [lastError EXCEPT ![o] = NoError]
  /\ outcome' = [outcome EXCEPT ![o] = FinalError(maxRetries[o], err)]
  /\ Settle(o, "failed",
            [stats EXCEPT !.failedRequests = @ + 1, !.activeRequests = @ - 1,
                          !.retriedRequests = IF attempt[o] > 0 THEN @ + 1 ELSE @])

\* Lines 165-171: the loop is left without a result: the final error is thrown.
GiveUp(o, err) ==
  /\ lastError' = [lastError EXCEPT ![o] = NoError]
  /\ outcome' = [outcome EXCEPT ![o] = FinalError(maxRetries[o], err)]
  /\ Settle(o, "failed",
            [stats EXCEPT !.failedRequests = @ + 1, !.activeRequests = @ - 1])

\* Variant: an operation gives its slot back while it sleeps.
AttemptFailsReleasesSlot(o, err) ==
  IF ShouldRetry(attempt[o], maxRetries[o], err)
    THEN /\ opState' = [opState EXCEPT ![o] = "sleeping"]
         /\ lastError' = [lastError EXCEPT ![o] = err]
         /\ activeCount' = activeCount - 1
         /\ UNCHANGED <<outcome, stats, queue, attempt, calls>>
    ELSE GiveUp(o, err)

\* Lines 142-162: the attempt threw: sleep and retry, or break out of the loop.
AttemptFails(o, err) ==
  IF ShouldRetry(attempt[o], maxRetries[o], err)
    THEN /\ opState' = [opState EXCEPT ![o] = "sleeping"]
         /\ lastError' = [lastError EXCEPT ![o] = err]
         /\ UNCHANGED <<outcome, stats, queue, activeCount, attempt, calls>>
    ELSE GiveUp(o, err)

\* Lines 125-130: requestFn settles with out; a resolved value that carries
\* the rate-limit code is turned into a thrown Error.
AttemptSettles(o, out) ==
  /\ opState[o] = "running"
  /\ hist' = [hist EXCEPT ![o] = Append(@, out)]
  /\ IF out.kind = "result"
       THEN IF out.errcode = "SSS_REQUEST_LIMIT_EXCEEDED"
              THEN AttemptFails(o, RateLimitError)
              ELSE AttemptSucceeds(o, out)
       ELSE AttemptFails(o, out)
  /\ BatchSettles(o)
  /\ UNCHANGED <<maxRetries, batchOf, script>>

\* An attempt of an operation whose requestFn is not scripted settles.
AttemptReturns ==
  \E o \in Ops, out \in ExecOutcomes :
    /\ script[o] = <<>>
    /\ AttemptSettles(o, out)

\* Lines 156-157 and 122-125: the backoff sleep ends, `continue` increments
\* attempt, and requestFn is invoked again if the loop condition holds;
\* otherwise the loop is left with lastError.
Retry ==
  \E o \in Ops :
    /\ opState[o] = "sleeping"
    /\ IF LoopContinues(NextAttempt(attempt[o]), maxRetries[o])
         THEN /\ attempt' = [attempt EXCEPT ![o] = NextAttempt(@)]
              /\ calls' = [calls EXCEPT ![o] = @ + 1]
              /\ opState' = [opState EXCEPT ![o] = "running"]
              /\ UNCHANGED <<queue, activeCount, lastError, outcome, stats>>
         ELSE GiveUp(o, lastError[o])
    /\ BatchSettles(o)
    /\ UNCHANGED <<maxRetries, batchOf, script, hist>>

ExecNext ==
  /\ Execute \/ ExecuteBatch \/ Admit \/ AttemptReturns \/ Retry
  /\ UNCHANGED <<compVars, tokenVars, obsVars>>

\* Lines 238-243: (n / totalRequests * 100).toFixed(2) + '%', in hundredths
\* of a percent (toFixed rounds to the nearest, a tie upwards), or 'N/A'
\* (Null) while totalRequests is 0.
Rate(n, total) ==
  IF total > 0 THEN Some((2 * n * 10000 + total) \div (2 * total)) ELSE Null

\* Lines 235-245: the object getStats() returns.
Snapshot(st) ==
  [totalRequests |-> st.totalRequests, successfulRequests |-> st.successfulRequests,
   failedRequests |-> st.failedRequests, retriedRequests |-> st.retriedRequests,
   queuedRequests |-> st.queuedRequests, activeRequests |-> st.activeRequests,
   successRate |-> Rate(st.successfulRequests, st.totalRequests),
   retryRate |-> Rate(st.retriedRequests, st.totalRequests)]

\* Variant: reading the statistics counts as a request.
StatsAfterReadCounted(st) == [st EXCEPT !.totalRequests = @ + 1]

\* Lines 235-245: getStats only reads stats.
StatsAfterRead(st) == st

\* Lines 235-245: getStats().
GetStats ==
  /\ lastStats' = Some(Snapshot(stats))
  /\ stats' = StatsAfterRead(stats)
  /\ UNCHANGED <<opState, queue, activeCount, maxRetries, attempt, calls, lastError,
                 outcome, batchOf, script, hist, batches>>

\* Lines 250-257: resetStats(), at any time.
ResetStats ==
  /\ stats' = InitStats
  /\ lastStats' = Null
  /\ UNCHANGED <<opState, queue, activeCount, maxRetries, attempt, calls, lastError,
                 outcome, batchOf, script, hist, batches>>

\* Direct calls, the first one with retries, the others without, with
\* getStats and resetStats called in between; a step of the executor ends the
\* record of the latest getStats.
StatsNext ==
  /\ \/ /\ \/ \E mr \in MaxRetriesOptions : executeWithConcurrencyControl(1, mr, <<>>)
           \/ ExecuteWithoutRetry
           \/ Admit
           \/ AttemptReturns
           \/ Retry
        /\ lastStats' = Null
     \/ GetStats
     \/ ResetStats
  /\ UNCHANGED <<compVars, tokenVars, priority, submitted, admitted, cancelled, stalled, sqlVars>>

\* An attempt of operation o settles.
AttemptOfReturns(o) ==
  \E out \in ExecOutcomes :
    /\ script[o] = <<>>
    /\ AttemptSettles(o, out)

\* Direct calls, the first concurrencyLimit of them with retries, the others
\* without.
CompletionNext ==
  /\ \/ \E o \in NextOps(1), mr \in MaxRetriesOptions :
          /\ o <= concurrencyLimit
          /\ executeWithConcurrencyControl(o, mr, <<>>)
     \/ ExecuteWithoutRetry
     \/ Admit
     \/ \E o \in Ops : AttemptOfReturns(o)
     \/ Retry
  /\ UNCHANGED <<compVars, tokenVars, obsVars>>

\* Line 107: the values of options.priority; 'normal' when it is absent.
Priorities == {"high", "normal", "low"}

\* Lines 105-113: a direct call of any idle operation with options
\* {priority, maxRetries: 0}.  priority is destructured (line 107) and not
\* read again: the call is queued like any other.
ExecuteWithPriority ==
  \E o \in Ops, pr \in Priorities :
    /\ executeWithConcurrencyControl(o, 0, <<>>)
    /\ priority' = [priority EXCEPT ![o] = pr]
    /\ submitted' = Append(submitted, o)
    /\ UNCHANGED <<lastStats, admitted, cancelled, stalled, sqlVars>>

\* The operation p-limit starts in this step, if any: by Admit after a call,
\* or by the step in which a function settles and gives its slot back.
Started == SetToSeq({o \in Ops : opState[o] = "queued" /\ opState'[o] = "running"})

\* Direct calls in any order with any priority.
PriorityNext ==
  /\ \/ ExecuteWithPriority
     \/ /\ Admit \/ AttemptReturns
        /\ admitted' = admitted \o Started
        /\ UNCHANGED <<lastStats, priority, submitted, cancelled, stalled, sqlVars>>
  /\ UNCHANGED <<compVars, tokenVars>>

\* Operations that have been submitted and have not settled.
Pending == {o \in Ops : opState[o] \in {"queued", "running", "sleeping"}}

\* Lines 105-173: the caller of a pending operation gives it up.
\* executeWithConcurrencyControl takes no signal or deadline and returns only
\* the promise of limit(...): nothing in the executor learns of it.
Cancel ==
  \E o \in Pending \ cancelled :
    /\ cancelled' = cancelled \cup {o}
    /\ UNCHANGED <<execVars, lastStats, priority, submitted, admitted, stalled, sqlVars>>

\* Direct calls, the first one with retries, the others without, which
\* their callers may give up.
CancelNext ==
  /\ \/ /\ \/ \E mr \in MaxRetriesOptions : executeWithConcurrencyControl(1, mr, <<>>)
           \/ ExecuteWithoutRetry
           \/ Admit
           \/ AttemptReturns
           \/ Retry
        /\ UNCHANGED obsVars
     \/ Cancel
  /\ UNCHANGED <<compVars, tokenVars>>

\* Line 122: the remote call behind the promise requestFn returned will never
\* respond; `await requestFn()` is not raced against any timer.
Stall ==
  \E o \in Ops \ stalled :
    /\ opState[o] = "running"
    /\ stalled' = stalled \cup {o}
    /\ UNCHANGED <<execVars, lastStats, priority, submitted, admitted, cancelled, sqlVars>>

\* An attempt whose remote call responds settles.
RespondingAttemptReturns ==
  \E o \in Ops \ stalled, out \in ExecOutcomes :
    /\ script[o] = <<>>
    /\ AttemptSettles(o, out)

\* Direct calls without retries, some of whose remote calls never respond.
StallNext ==
  /\ \/ /\ \/ ExecuteWithoutRetry
           \/ Admit
           \/ RespondingAttemptReturns
        /\ UNCHANGED obsVars
     \/ Stall
  /\ UNCHANGED <<compVars, tokenVars>>

\* One batch in either mode, next to direct calls that take slots.
BatchNext ==
  /\ ExecuteBatchAnyMode \/ ExecuteWithoutRetry \/ Admit \/ AttemptReturns \/ Retry
  /\ UNCHANGED <<compVars, tokenVars, obsVars>>

\* ---------------------------------------------------- composite RESTlet
Invs == 1..NumInvs

\* Request bodies: the body itself may be null; project may be absent or lack
\* customerId; tasks may be absent or an array of objects, possibly with a
\* null as its last element (what follows a null is never looked at).
RECURSIVE ObjectArrays(_)
ObjectArrays(n) ==
  IF n = 0 THEN {<<>>}
  ELSE LET shorter == ObjectArrays(n - 1)
       IN shorter \cup {Append(t, "object") : t \in shorter}

TaskArrays ==
  ObjectArrays(MaxTasks) \cup
  {Append(t, "null") : t \in ObjectArrays(MaxTasks - 1)}

RequestBodies ==
  { [body |-> "null", project |-> "absent", tasks |-> Null] } \cup
  { [body |-> "object", project |-> p, tasks |-> t] :
      p \in {"absent", "noCustomerId"}, t \in {Null, Some(<<"object">>)} } \cup
  { [body |-> "object", project |-> "ok", tasks |-> t] :
      t \in {Null} \cup {Some(a) : a \in TaskArrays} }

\* (requestBody.tasks || [])
TasksOf(r) == IF r.tasks = Null THEN <<>> ELSE r.tasks[1]

NoResponse == [success |-> FALSE, data |-> Null, error |-> Null, thrown |-> FALSE,
               returned |-> FALSE]

\* Lines 305-314: the success envelope.
SuccessResponse(pid, taskIds) ==
  [success |-> TRUE,
   data |-> Some([projectId |-> pid, taskIds |-> taskIds, taskCount |-> Len(taskIds)]),
   error |-> Null, thrown |-> FALSE, returned |-> TRUE]

\* Variant: e.name and e.message are passed on as they are.
ErrorResponseNoFallback(name, message, pid, taskIds, r) ==
  [success |-> FALSE, data |-> Null,
   error |-> Some([code |-> name,
                   message |-> message,
                   details |-> [projectId |-> pid,
                                partialTasksCreated |-> Len(taskIds),
                                totalTasksRequested |-> Len(TasksOf(r))]]),
   thrown |-> FALSE, returned |-> TRUE]

\* Lines 325-337: the error envelope built by the outer catch; name and
\* message are e.name and e.message of the caught error, replaced by fixed
\* texts when they are empty (lines 329-330).
ErrorResponse(name, message, pid, taskIds, r) ==
  [success |-> FALSE, data |-> Null,
   error |-> Some([code |-> IF name = "" THEN "COMPOSITE_CREATE_ERROR" ELSE name,
                   message |-> IF message[1] = "" THEN <<"Unknown error occurred", -1, 0>>
                               ELSE message,
                   details |-> [projectId |-> pid,
                                partialTasksCreated |-> Len(taskIds),
                                totalTasksRequested |-> Len(TasksOf(r))]]),
   thrown |-> FALSE, returned |-> TRUE]

\* post ended with an exception instead of an envelope.
ThrownResponse == [NoResponse EXCEPT !.thrown = TRUE]

\* Error messages: <<text, task index, project id>>, -1 and 0 where the text
\* has no such part.
Message(text) == <<text, -1, 0>>
\* Line 297.
RolledBackMessage(idx, pid) ==
  <<"Failed to create task (index i): Project has been rolled back.", idx, pid>>

NoProject == 0   \* projectId = null

\* Variant: the loop over the tasks starts at index 1.
InitInvFromOne ==
  [pc |-> "idle", requestBody |-> [body |-> "null", project |-> "absent", tasks |-> Null],
   projectId |-> NoProject, createdTaskIds |-> <<>>, i |-> 1,
   response |-> NoResponse,
   \* history: the result of the rollback delete, the number of deletes
   \* and task creations issued, the index of the task that failed, the ids
   \* of the records this invocation created
   rollback |-> "none", deletes |-> 0, taskCreates |-> 0, failedAt |-> -1,
   records |-> {},
   \* history: the indices createProjectTask was called for, in order, and
   \* the error the failed call threw
   attempted |-> <<>>, taskError |-> NoError]

InitInv ==
  [pc |-> "idle", requestBody |-> [body |-> "null", project |-> "absent", tasks |-> Null],
   projectId |-> NoProject, createdTaskIds |-> <<>>, i |-> 0,
   response |-> NoResponse,
   \* history: the result of the rollback delete, the number of deletes
   \* and task creations issued, the index of the task that failed, the ids
   \* of the records this invocation created
   rollback |-> "none", deletes |-> 0, taskCreates |-> 0, failedAt |-> -1,
   records |-> {},
   \* history: the indices createProjectTask was called for, in order, and
   \* the error the failed call threw
   attempted |-> <<>>, taskError |-> NoError]

CompInit ==
  /\ inv = [v \in Invs |-> InitInv]
  /\ remoteProjects = {}
  /\ remoteTasks = {}

\* The internal ids record.save() returns: NetSuite hands out a fresh id for
\* every record; the model gives invocation v the ids of its own block.
ProjectRecordId(v) == v * (MaxTasks + 1)
TaskRecordId(v, idx) == v * (MaxTasks + 1) + idx + 1

\* Errors record.save() / record.delete() can raise: a SuiteScript error
\* with a name, or an error without one; with a message, or without.
RemoteErrorNames == {"UNEXPECTED_ERROR", ""}
RemoteErrorMessages == {"project save failed", ""}

\* Variant: the customerId check is missing.
ValidationErrorNoCustomerCheck(r) ==
  IF r.project = "absent" THEN "MISSING_PROJECT_DATA" ELSE ""

\* Lines 240-254: the name of the validation error, "" if the request passes.
ValidationError(r) ==
  IF r.project = "absent" THEN "MISSING_PROJECT_DATA"
  ELSE IF r.project = "noCustomerId" THEN "MISSING_CUSTOMER_ID"
  ELSE ""

ValidationMessage(name) ==
  IF name = "MISSING_PROJECT_DATA" THEN Message("Request must include project object")
  ELSE Message("Project must specify customerId")

Done(v, resp) == [inv[v] EXCEPT !.pc = "done", !.response = resp]

\* Lines 234-260: post is entered with request body r and the request is
\* validated.
post(v, r) ==
    /\ inv[v].pc = "idle"
    /\ \A u \in Invs : u < v => inv[u].pc # "idle"
    /\ LET s == [inv[v] EXCEPT !.requestBody = r]
       IN inv' = [inv EXCEPT ![v] =
            IF r.body = "null"
              \* requestBody.project throws; the catch block throws again at
              \* (requestBody.tasks || [])
              THEN [s EXCEPT !.pc = "done", !.response = ThrownResponse]
            ELSE IF ValidationError(r) # ""
              THEN [s EXCEPT !.pc = "done", !.response =
                      ErrorResponse(ValidationError(r),
                                    ValidationMessage(ValidationError(r)),
                                    NoProject, <<>>, r)]
            ELSE [s EXCEPT !.pc = "createProject"]]
    /\ UNCHANGED <<remoteProjects, remoteTasks>>

\* A request arrives.
PostStart == \E v \in Invs, r \in RequestBodies : post(v, r)

\* Requests with a valid project and one to MaxTasks tasks, the last of
\* which names a service item that taskRec.setText rejects (line 191); the
\* request of README 5.3 is one of them.
ServiceItemArrays ==
  {Append(t, "badServiceItem") : t \in ObjectArrays(MaxTasks - 1)}

ServiceItemBodies ==
  { [body |-> "object", project |-> "ok", tasks |-> Some(a)] : a \in ServiceItemArrays }

\* Such a request arrives.
PostServiceItem == \E v \in Invs, r \in ServiceItemBodies : post(v, r)

\* Variant: the loop over the tasks stops one task early.
ContinueOneShort(s) ==
  IF s.i < Len(TasksOf(s.requestBody)) - 1
    THEN [s EXCEPT !.pc = "createTask"]
    ELSE [s EXCEPT !.pc = "done",
                   !.response = SuccessResponse(s.projectId, s.createdTaskIds)]

\* Lines 265-266 and 305: after the project, and after every task: the next
\* task if there is one, else the success envelope.
Continue(s) ==
  IF s.i < Len(TasksOf(s.requestBody))
    THEN [s EXCEPT !.pc = "createTask"]
    ELSE [s EXCEPT !.pc = "done",
                   !.response = SuccessResponse(s.projectId, s.createdTaskIds)]

\* Line 262, createProject (lines 86-135): the project record is saved, or
\* the save throws and the outer catch answers.
CreateProject ==
  \E v \in Invs :
    /\ inv[v].pc = "createProject"
    /\ \/ /\ inv' = [inv EXCEPT ![v] =
               Continue([inv[v] EXCEPT !.projectId = ProjectRecordId(v),
                                       !.records = @ \cup {ProjectRecordId(v)}])]
          /\ remoteProjects' = remoteProjects \cup {ProjectRecordId(v)}
          /\ UNCHANGED remoteTasks
       \/ \E name \in RemoteErrorNames, text \in RemoteErrorMessages :
            /\ inv' = [inv EXCEPT ![v] =
                 Done(v, ErrorResponse(name, Message(text),
                                       NoProject, <<>>, inv[v].requestBody))]
            /\ UNCHANGED <<remoteProjects, remoteTasks>>

\* Errors taskRec.save() can raise (line 222): the governance limit of the
\* account, which the executor's isRetryableError takes for transient, and
\* a rejected field value.
TaskSaveErrors ==
  { RateLimitError, MkError(NoStatus, "", "INVALID_FLD_VALUE") }

\* Variant: a transient failure of a task is retried like a call of the
\* executor, and the rollback follows when the retries are used up.
AfterTaskFailureRetried(t, err) ==
  IF isRetryableError(err) /\ Len(t.attempted) <= t.i + CONFIG_maxRetries
    THEN [t EXCEPT !.pc = "createTask"]
    ELSE [t EXCEPT !.pc = "rollback", !.failedAt = t.i, !.taskError = err]

\* Lines 273-279: whatever createProjectTask threw, the catch block of the
\* loop goes on to the rollback.
AfterTaskFailure(t, err) ==
  [t EXCEPT !.pc = "rollback", !.failedAt = t.i, !.taskError = err]

\* Lines 266-278, createProjectTask (lines 140-226): task i is created; or
\* its save throws and the rollback follows; or the task is null, so that
\* taskData.name throws in createProjectTask and task.name throws again in
\* the catch block (line 276), which takes control to the outer catch.
CreateTask ==
  \E v \in Invs :
    LET s == inv[v]
        task == TasksOf(s.requestBody)[s.i + 1]
        t == [s EXCEPT !.taskCreates = @ + 1, !.attempted = Append(@, s.i)]
    IN
    /\ s.pc = "createTask"
    /\ IF task = "null"
         THEN /\ inv' = [inv EXCEPT ![v] =
                   [t EXCEPT !.pc = "done", !.failedAt = s.i,
                             !.taskError = MkError(NoStatus, "", "TypeError"),
                             !.response =
                               ErrorResponse("TypeError",
                                             Message("Cannot read properties of null"),
                                             s.projectId, s.createdTaskIds,
                                             s.requestBody)]]
              /\ UNCHANGED <<remoteProjects, remoteTasks>>
         ELSE \/ /\ inv' = [inv EXCEPT ![v] =
                      Continue([t EXCEPT !.createdTaskIds = Append(@, TaskRecordId(v, s.i)),
                                         !.i = @ + 1,
                                         !.records = @ \cup {TaskRecordId(v, s.i)}])]
                 /\ remoteTasks' = remoteTasks \cup
                                     {[id |-> TaskRecordId(v, s.i), company |-> s.projectId,
                                       index |-> s.i,
                                       \* lines 187-198: an error of setText
                                       \* is caught and logged, and the task
                                       \* is saved without the field
                                       serviceitem |-> IF task = "badServiceItem"
                                                         THEN "unset" ELSE "set"]}
                 /\ UNCHANGED remoteProjects
              \/ \E err \in TaskSaveErrors :
                   /\ inv' = [inv EXCEPT ![v] = AfterTaskFailure(t, err)]
                   /\ UNCHANGED <<remoteProjects, remoteTasks>>

\* Lines 280-299 and 316-337: record.delete of the project succeeds (its tasks
\* go with it) or throws; either way TASK_CREATE_FAILED is thrown with the
\* same message and the outer catch builds the envelope.
Rollback ==
  \E v \in Invs :
    LET s == inv[v]
        resp == ErrorResponse("TASK_CREATE_FAILED",
                              RolledBackMessage(s.i, s.projectId),
                              s.projectId, s.createdTaskIds, s.requestBody)
    IN
    /\ s.pc = "rollback"
    /\ \/ /\ remoteProjects' = remoteProjects \ {s.projectId}
          /\ remoteTasks' = {t \in remoteTasks : t.company # s.projectId}
          /\ inv' = [inv EXCEPT ![v] =
               [s EXCEPT !.pc = "done", !.response = resp, !.rollback = "ok",
                         !.deletes = @ + 1]]
       \/ /\ UNCHANGED <<remoteProjects, remoteTasks>>
          /\ inv' = [inv EXCEPT ![v] =
               [s EXCEPT !.pc = "done", !.response = resp, !.rollback = "failed",
                         !.deletes = @ + 1]]

\* Requests with a service item that cannot be set.
ServiceItemNext ==
  /\ PostServiceItem \/ CreateProject \/ CreateTask \/ Rollback
  /\ UNCHANGED <<execVars, tokenVars, obsVars>>

CompositeNext ==
  /\ PostStart \/ CreateProject \/ CreateTask \/ Rollback
  /\ UNCHANGED <<execVars, tokenVars, obsVars>>

\* ------------------------------------------------------------ token cache
Callers == 1..NumCallers

SAFETY_BUFFER_MS == 300000   \* line 416: Date.now() + 300000
TickMs == SAFETY_BUFFER_MS    \* the clock of the model advances in steps of 5 minutes

\* expires_in (seconds) of the token endpoint's answers.
ExpiresIn == {300, 600, 3600}

\* What a caller was given: the token, its cached expiresAt, the time of the
\* return, where the token came from and, for a fresh one, its expires_in.
NoReturn == [status |-> "none", token |-> 0, expiresAt |-> 0, at |-> 0, from |-> "none",
             expires_in |-> 0, error |-> ""]

\* Lines 317-322: the required settings.
ConfigFields == {"accountId", "clientId", "certId", "privateKey"}

\* Variant: privateKey is not among the settings checked.
missingExceptPrivateKey(cfg) == {k \in ConfigFields \ {"privateKey"} : cfg[k] = ""}

\* Lines 324-326: the settings whose value is falsy.
missing(cfg) == {k \in ConfigFields : cfg[k] = ""}

TokenInit ==
  /\ now = 0
  /\ tokenCache = Null
  /\ caller = [c \in Callers |-> [pc |-> "idle", ret |-> NoReturn]]
  /\ exchanges = 0
  /\ config \in [ConfigFields -> {"", "set"}]
  /\ started = 0

\* What a failed call ends with.
Thrown(t, message) == [NoReturn EXCEPT !.status = "error", !.at = t, !.error = message]

\* Variant: the cached token is wanted twice the buffer away from its expiry.
CacheValidDoubleBuffer(cache, t) ==
  cache # Null /\ cache[1].expiresAt > t + 2 * SAFETY_BUFFER_MS

\* Variant: the cache check has no safety buffer.
CacheValidNoBuffer(cache, t) == cache # Null /\ cache[1].expiresAt > t

\* Line 416: cached && cached.expiresAt > Date.now() + 300000
CacheValid(cache, t) == cache # Null /\ cache[1].expiresAt > t + SAFETY_BUFFER_MS

\* Variant: the token is cached with expires_in taken for milliseconds.
CacheEntryNoConversion(token, t, expires_in) ==
  [token |-> token, expiresAt |-> t + expires_in]

\* Lines 424-427: { token: access_token, expiresAt: Date.now() + (expires_in * 1000) }
CacheEntry(token, t, expires_in) ==
  [token |-> token, expiresAt |-> t + expires_in * 1000]

\* Variant: a failed exchange empties the cache.
CacheAfterFailureCleared(cache) == Null

\* Line 421: exchangeJWTForToken throws out of getAccessToken before
\* tokenCache.set (line 424) is reached: the cache keeps what it holds.
CacheAfterFailure(cache) == cache

\* Lines 412-421 and 371-386: getAccessToken is entered: the cached token is
\* returned; or exchangeJWTForToken is called, where getOAuthConfig throws if
\* a setting is missing, and else the request to the token endpoint is sent
\* and awaited.
GetToken ==
  \E c \in Callers :
    /\ caller[c].pc \in {"idle", "done"}
    /\ IF CacheValid(tokenCache, now)
         THEN /\ caller' = [caller EXCEPT ![c] =
                   [pc |-> "done",
                    ret |-> [status |-> "token", token |-> tokenCache[1].token,
                             expiresAt |-> tokenCache[1].expiresAt, at |-> now,
                             from |-> "cache", expires_in |-> 0, error |-> ""]]]
              /\ UNCHANGED <<tokenCache, started>>
         ELSE IF missing(config) # {}
           THEN /\ caller' = [caller EXCEPT ![c] =
                     [pc |-> "done",
                      ret |-> Thrown(now, "Missing OAuth M2M configuration")]]
                /\ tokenCache' = CacheAfterFailure(tokenCache)
                /\ UNCHANGED started
           ELSE /\ started < MaxExchanges
                /\ started' = started + 1
                /\ caller' = [caller EXCEPT ![c] = [pc |-> "exchanging", ret |-> NoReturn]]
                /\ UNCHANGED tokenCache
    /\ UNCHANGED <<now, exchanges, config>>

\* Lines 393-399 and 421-429: the token endpoint answers with a new token and
\* its expires_in; the token is cached and returned.
ExchangeSucceeds ==
  \E c \in Callers, expires_in \in ExpiresIn :
    /\ caller[c].pc = "exchanging"
    /\ exchanges' = exchanges + 1
    /\ tokenCache' = Some(CacheEntry(exchanges + 1, now, expires_in))
    /\ caller' = [caller EXCEPT ![c] =
         [pc |-> "done",
          ret |-> [status |-> "token", token |-> exchanges + 1,
                   expiresAt |-> CacheEntry(exchanges + 1, now, expires_in).expiresAt,
                   at |-> now, from |-> "exchange", expires_in |-> expires_in,
                   error |-> ""]]]
    /\ UNCHANGED <<now, config, started>>

\* Lines 388-397: what exchangeJWTForToken throws: the answer is not ok, or
\* it has no access_token.
ExchangeErrors == {"OAuth token exchange failed", "No access_token in OAuth response"}

\* Lines 388-397: the token endpoint answers non-2xx or without access_token:
\* exchangeJWTForToken throws and getAccessToken fails with it.
ExchangeFails ==
  \E c \in Callers, message \in ExchangeErrors :
    /\ caller[c].pc = "exchanging"
    /\ caller' = [caller EXCEPT ![c] = [pc |-> "done", ret |-> Thrown(now, message)]]
    /\ tokenCache' = CacheAfterFailure(tokenCache)
    /\ UNCHANGED <<now, exchanges, config, started>>

\* Lines 471-473: clearTokenCache().
ClearTokenCache ==
  /\ tokenCache # Null
  /\ tokenCache' = Null
  /\ UNCHANGED <<now, caller, exchanges, config, started>>

\* Time passes.
Tick ==
  /\ now < MaxTicks * TickMs
  /\ now' = now + TickMs
  /\ UNCHANGED <<tokenCache, caller, exchanges, config, started>>

TokenNext ==
  /\ GetToken \/ ExchangeSucceeds \/ ExchangeFails \/ ClearTokenCache \/ Tick
  /\ UNCHANGED <<execVars, compVars, obsVars>>

\* ------------------------------------------------------------ SuiteQL
\* The answers of the SuiteQL endpoint: status and body text; the body of an
\* error may name NetSuite's request limit.
HttpStatuses == {200, 400, 429, 500, 502, 503, 504}
HttpResponses ==
  { [status |-> 200, text |-> ""] } \cup
  { [status |-> st, text |-> tx] :
      st \in HttpStatuses \ {200}, tx \in {"", "SSS_REQUEST_LIMIT_EXCEEDED"} }

\* Variant: the error requestFn throws carries the response.
requestFnWithResponse(resp) ==
  IF resp.status \in 200..299
    THEN MkResult("")
    ELSE MkError(resp.status, "", IF resp.text = "" THEN "SuiteQL query failed" ELSE resp.text)

\* Lines 36-54: requestFn of executeSuiteQL: result.items || [] for an ok
\* response; else new Error(`SuiteQL query failed: ${status} - ${errorText}`),
\* an Error without response and code, whose message contains the body text.
requestFn(resp) ==
  IF resp.status \in 200..299
    THEN MkResult("")
    ELSE MkError(NoStatus, "", IF resp.text = "" THEN "SuiteQL query failed" ELSE resp.text)

\* The token getAccessToken would return at time t finds tok current: tok
\* is the cached token and the cache check passes.
TokenCurrent(tok, cache, t) == CacheValid(cache, t) /\ cache[1].token = tok

\* Line 39: the operations whose requestFn is invoked in this step send
\* accessToken of the closure in the Authorization header.
Sending == {o \in Ops : calls'[o] > calls[o]}
SentStale ==
  sentStale \cup {o \in Sending : ~TokenCurrent(opToken'[o], tokenCache', now')}

\* The lifetime the token endpoint grants in the query specifications: the
\* one of ExpiresIn that ends two ticks later.
QueryTokenLifetimes == {x \in ExpiresIn : x * 1000 = 2 * TickMs}

\* Lines 30-59: executeSuiteQL: getAccessToken is awaited (the cached token,
\* or a new one from an exchange that succeeds), then requestFn is handed to
\* executeWithConcurrencyControl with the default maxRetries.
executeSuiteQL(o) ==
  /\ executeWithConcurrencyControl(o, CONFIG_maxRetries, <<>>)
  /\ IF CacheValid(tokenCache, now)
       THEN /\ opToken' = [opToken EXCEPT ![o] = tokenCache[1].token]
            /\ UNCHANGED <<tokenCache, exchanges>>
       ELSE \E expires_in \in QueryTokenLifetimes :
              /\ exchanges' = exchanges + 1
              /\ tokenCache' = Some(CacheEntry(exchanges + 1, now, expires_in))
              /\ opToken' = [opToken EXCEPT ![o] = exchanges + 1]
  /\ UNCHANGED <<now, lastHttp>>

\* Lines 37-53: the endpoint answers an attempt of operation o with resp and
\* requestFn settles.
Answer(o, resp) ==
  /\ AttemptSettles(o, requestFn(resp))
  /\ lastHttp' = [lastHttp EXCEPT ![o] = Some(resp)]
  /\ UNCHANGED <<now, tokenCache, exchanges, opToken>>

SuiteQLAttemptReturns == \E o \in Ops, resp \in HttpResponses : Answer(o, resp)

\* Time passes; p-limit starts a queued function in a microtask, before any
\* time has passed, when a slot is free.
SuiteQLTick ==
  /\ ~(queue # <<>> /\ SlotFree(activeCount))
  /\ now < MaxTicks * TickMs
  /\ now' = now + TickMs
  /\ UNCHANGED <<execVars, tokenCache, exchanges, opToken, lastHttp>>

\* One query, answered in every way of HttpResponses.
SuiteQLNext ==
  /\ \/ executeSuiteQL(1)
     \/ (Admit \/ Retry) /\ UNCHANGED <<now, tokenCache, exchanges, opToken, lastHttp>>
     \/ SuiteQLAttemptReturns
     \/ SuiteQLTick
  /\ sentStale' = SentStale
  /\ UNCHANGED <<compVars, caller, config, started, lastStats, priority, submitted,
                 admitted, cancelled, stalled, waited>>

\* The queries of the token specification are answered with rows or with
\* NetSuite's request limit.
LimitResponses ==
  { [status |-> 200, text |-> ""], [status |-> 429, text |-> "SSS_REQUEST_LIMIT_EXCEEDED"] }

ExecuteSuiteQL == \E o \in NextOps(1) : executeSuiteQL(o)

LimitAttemptReturns == \E o \in Ops, resp \in LimitResponses : Answer(o, resp)

\* Queries that wait in the queue and are retried while time passes.
TokenUseNext ==
  /\ \/ ExecuteSuiteQL
     \/ (Admit \/ Retry) /\ UNCHANGED <<now, tokenCache, exchanges, opToken, lastHttp>>
     \/ LimitAttemptReturns
     \/ SuiteQLTick
  /\ sentStale' = SentStale
  /\ UNCHANGED <<compVars, caller, config, started, lastStats, priority, submitted,
                 admitted, cancelled, stalled, waited>>

\* ------------------------------------------------------------ backoff
\* Values of Math.random() (line 69), in hundredths: the least one, one in
\* the middle and one close to 1.
Randoms == {0, 50, 95}

RECURSIVE Pow2(_)
Pow2(n) == IF n = 0 THEN 1 ELSE 2 * Pow2(n - 1)

\* Variant: the delay is not capped.
getRetryDelayUncapped(attemptNumber, random) ==
  LET delay == initialRetryDelay * Pow2(attemptNumber)
      jitter == (delay * 20 * random) \div 10000
  IN delay + jitter

\* Lines 62-72: getRetryDelay(attemptNumber), with Math.random() = random / 100.
getRetryDelay(attemptNumber, random) ==
  LET delay == Min({initialRetryDelay * Pow2(attemptNumber), maxRetryDelay})
      jitter == (delay * 20 * random) \div 10000
  IN delay + jitter

\* Lines 146-156: the operations that begin a backoff sleep in this step.
FallingAsleep == {o \in Ops : opState[o] # "sleeping" /\ opState'[o] = "sleeping"}

\* One call with up to MaxBackoffRetries retries; the delay of every sleep
\* is recorded.
BackoffNext ==
  /\ \/ \E mr \in 0..MaxBackoffRetries : executeWithConcurrencyControl(1, mr, <<>>)
     \/ Admit
     \/ AttemptReturns
     \/ Retry
  /\ IF FallingAsleep = {}
       THEN UNCHANGED waited
       ELSE \E random \in Randoms :
              waited' = Append(waited, [random |-> random,
                                        delay |-> getRetryDelay(attempt[1], random)])
  /\ UNCHANGED <<compVars, tokenVars, lastStats, priority, submitted, admitted,
                 cancelled, stalled, opToken, lastHttp, sentStale>>

\* ------------------------------------------- one operation, scripted
\* All behaviours of a requestFn that is invoked at most n times.
RECURSIVE Scripts(_)
Scripts(n) ==
  IF n = 0 THEN {<<>>}
  ELSE {Append(f, out) : f \in Scripts(n - 1), out \in AttemptOutcomes}

\* A direct call of a requestFn whose behaviour on each invocation is fixed.
ExecuteScripted ==
  \E mr \in AllMaxRetriesOptions :
    \E fn \in Scripts(mr + 1) : executeWithConcurrencyControl(1, mr, fn)

\* An attempt of a scripted requestFn settles as the script says.
ScriptedAttemptReturns ==
  \E o \in Ops :
    /\ script[o] # <<>>
    /\ calls[o] \in 1..Len(script[o])
    /\ AttemptSettles(o, script[o][calls[o]])

\* A direct call of a requestFn whose behaviour is decided as it settles.
ExecuteOne ==
  \E mr \in AllMaxRetriesOptions : executeWithConcurrencyControl(1, mr, <<>>)

\* An attempt of that requestFn settles.
AnyAttemptReturns ==
  \E o \in Ops, out \in AllOutcomes :
    /\ script[o] = <<>>
    /\ AttemptSettles(o, out)

RetryNext ==
  /\ ExecuteScripted \/ Admit \/ ScriptedAttemptReturns \/ Retry
  /\ UNCHANGED <<compVars, tokenVars, obsVars>>

AttemptNext ==
  /\ ExecuteOne \/ Admit \/ AnyAttemptReturns \/ Retry
  /\ UNCHANGED <<compVars, tokenVars, obsVars>>

\* The start of the token model: any combination of set and unset settings.
EnvInit == ExecInit /\ CompInit /\ TokenInit

\* The start of the other models: the token component with all settings set.
AllInit == EnvInit /\ config = [k \in ConfigFields |-> "set"]

ExecSpec == AllInit /\ [][ExecNext]_vars

CompositeSpec == AllInit /\ [][CompositeNext]_vars

\* Direct calls under the scheduling of the event loop: p-limit starts a
\* queued function once a slot is free, the timer of a sleep fires, and every
\* attempt of every operation settles.
CompletionSpec ==
  /\ AllInit /\ [][CompletionNext]_vars
  /\ WF_execVars(Admit) /\ WF_execVars(Retry)
  /\ \A o \in Ops : WF_execVars(AttemptOfReturns(o))

BackoffSpec == AllInit /\ [][BackoffNext]_vars

SuiteQLSpec == AllInit /\ [][SuiteQLNext]_vars

TokenUseSpec == AllInit /\ [][TokenUseNext]_vars

ServiceItemSpec == AllInit /\ [][ServiceItemNext]_vars

CancelSpec == AllInit /\ [][CancelNext]_vars

\* Whatever can run does run: p-limit starts queued functions, and remote
\* calls that respond do so in the end.
StallSpec ==
  /\ AllInit /\ [][StallNext]_vars
  /\ WF_execVars(Admit) /\ WF_execVars(RespondingAttemptReturns)

PrioritySpec == AllInit /\ [][PriorityNext]_vars

StatsSpec == AllInit /\ [][StatsNext]_vars

BatchSpec == AllInit /\ [][BatchNext]_vars

TokenSpec == EnvInit /\ [][TokenNext]_vars

\* p-limit starts a queued function when a slot is free, timers fire, and
\* every invocation of requestFn settles.
RetrySpec ==
  /\ AllInit /\ [][RetryNext]_vars
  /\ WF_execVars(Admit) /\ WF_execVars(Retry) /\ WF_execVars(ScriptedAttemptReturns)

\* One unscripted call whose attempts settle in every way of AllOutcomes.
AttemptSpec == AllInit /\ [][AttemptNext]_vars

\* ----------------------------------------------------------- claims
\* ---------------------------------------------------- request executor
Active == {o \in Ops : opState[o] \in {"running", "sleeping"}}

\* The failures the specification calls retryable, and a usable result.
SpecRetryable(out) ==
  \/ out.kind = "error" /\ out.status \in {429, 500, 502, 503, 504}
  \/ out.kind = "error" /\ out.code \in {"ECONNRESET", "ETIMEDOUT", "ENOTFOUND"}
  \/ out.kind = "error" /\ out.msg = "SSS_REQUEST_LIMIT_EXCEEDED"
  \/ out.kind = "result" /\ out.errcode = "SSS_REQUEST_LIMIT_EXCEEDED"
SpecSuccess(out) == out.kind = "result" /\ out.errcode = ""
SpecNonRetryable(out) == ~SpecSuccess(out) /\ ~SpecRetryable(out)

\* C1: under any interleaving of direct calls and batches, the number of
\* operations that were admitted and have not completed never exceeds
\* concurrencyLimit.
C1_ConcurrencyBound == Cardinality(Active) <= concurrencyLimit

\* Operations of two different batches hold all the slots while a third
\* operation waits.
C1_Witness ==
  /\ Cardinality(Active) = concurrencyLimit
  /\ queue # <<>>
  /\ \E a, b \in Active : batchOf[a] # 0 /\ batchOf[b] # 0 /\ batchOf[a] # batchOf[b]

\* C3: requestFn is invoked at most maxRetries + 1 times per operation.
C3_AttemptsBounded == \A o \in Ops : calls[o] <= maxRetries[o] + 1

\* An operation with retries allowed failed after using all its attempts.
C3_Witness ==
  \E o \in Ops : /\ opState[o] = "failed"
                 /\ maxRetries[o] > 0
                 /\ calls[o] = maxRetries[o] + 1

\* C4: an attempt that fails with a non-retryable condition is the last
\* attempt of its operation, and the operation fails; if it is the first
\* attempt, exactly one attempt is made.
C4_TerminalFailureStops ==
  \A o \in Ops : \A k \in 1..Len(hist[o]) :
    SpecNonRetryable(hist[o][k]) =>
      /\ k = Len(hist[o])
      /\ calls[o] = k
      /\ opState[o] = "failed"

\* An operation that may retry failed non-retryably at once, and an
\* operation did so on a later attempt.
C4_Witness ==
  /\ \E o \in Ops : /\ maxRetries[o] > 0
                    /\ Len(hist[o]) = 1
                    /\ SpecNonRetryable(hist[o][1])
                    /\ calls[o] = 1
  /\ \E o \in Ops : /\ Len(hist[o]) > 1
                    /\ SpecNonRetryable(hist[o][Len(hist[o])])

\* requestFn fails retryably on its first k invocations and succeeds on the next.
RetryableThenSuccess(fn, k) ==
  /\ Len(fn) >= k + 1
  /\ \A n \in 1..k : SpecRetryable(fn[n])
  /\ SpecSuccess(fn[k + 1])

\* C5: if requestFn fails with retryable conditions on its first k
\* invocations, k <= maxRetries, and succeeds on invocation k + 1, the call
\* eventually returns the result of that invocation, after exactly k + 1
\* invocations.
C5_RetriesUntilSuccess ==
  \A o \in Ops : \A k \in 0..CONFIG_maxRetries :
    (opState[o] = "queued" /\ k <= maxRetries[o] /\ RetryableThenSuccess(script[o], k))
      ~> (/\ opState[o] = "ok"
          /\ calls[o] = k + 1
          /\ Len(script[o]) > k
          /\ outcome[o] = script[o][k + 1])

\* A call succeeded on its last permitted attempt after maxRetries retryable
\* failures.
C5_Witness ==
  \E o \in Ops : /\ opState[o] = "ok"
                 /\ maxRetries[o] = CONFIG_maxRetries
                 /\ RetryableThenSuccess(script[o], maxRetries[o])
                 /\ calls[o] = maxRetries[o] + 1

\* Attempt k of operation o failed and was followed by a backoff and a
\* further attempt (which is under way, or has been made).
Retried(o, k) ==
  \/ calls[o] > k
  \/ calls[o] = k /\ Len(hist[o]) = k /\ opState[o] = "sleeping"

\* C17: a failed attempt that is not the last permitted one is retried if and
\* only if its failure is one of the retryable conditions (else the call
\* fails with it at once); a result that carries SSS_REQUEST_LIMIT_EXCEEDED in
\* result.error.code counts as such a failure, and a call never returns it.
C17_RetriesExactlyRetryable ==
  \A o \in Ops :
    /\ \A k \in 1..Len(hist[o]) :
         (~SpecSuccess(hist[o][k]) /\ k <= maxRetries[o]) =>
           /\ SpecRetryable(hist[o][k]) <=> Retried(o, k)
           /\ ~SpecRetryable(hist[o][k]) =>
                (opState[o] = "failed" /\ calls[o] = k /\ Len(hist[o]) = k)
    /\ opState[o] = "ok" =>
         /\ outcome[o].kind = "result"
         /\ outcome[o].errcode # "SSS_REQUEST_LIMIT_EXCEEDED"
         /\ outcome[o] = hist[o][Len(hist[o])]
    /\ \A k \in 1..Len(hist[o]) :
         (hist[o][k].kind = "result" /\ hist[o][k].errcode = "SSS_REQUEST_LIMIT_EXCEEDED") =>
           /\ outcome[o] # hist[o][k]
           /\ k <= maxRetries[o] => Retried(o, k)
           /\ k = maxRetries[o] + 1 => opState[o] = "failed"

\* A call was retried after a rate-limited result, after a DNS failure and
\* after a 502, in that order, and then failed at once on a 501.
C17_Witness ==
  \E o \in Ops :
    /\ opState[o] = "failed"
    /\ Len(hist[o]) = 4
    /\ hist[o][1] = MkResult("SSS_REQUEST_LIMIT_EXCEEDED")
    /\ hist[o][2].code = "ENOTFOUND"
    /\ hist[o][3].status = 502
    /\ hist[o][4].status = 501

\* The message of the failure of an attempt.
FailureMessage(out) ==
  IF out.kind = "result" THEN "SSS_REQUEST_LIMIT_EXCEEDED" ELSE out.msg

\* C18: when all maxRetries + 1 attempts of a call have failed with retryable
\* conditions the call has failed, its error carries the message of the last
\* attempt's failure and reports maxRetries + 1 attempts.
C18_ExhaustionReportsLastFailure ==
  \A o \in Ops :
    (/\ Len(hist[o]) = maxRetries[o] + 1
     /\ \A k \in 1..Len(hist[o]) : SpecRetryable(hist[o][k])) =>
      /\ opState[o] = "failed"
      /\ calls[o] = maxRetries[o] + 1
      /\ outcome[o].kind = "failure"
      /\ outcome[o].msg = FailureMessage(hist[o][Len(hist[o])])
      /\ outcome[o].attempts = maxRetries[o] + 1

\* A call with the default maxRetries used up its four attempts on
\* retryable failures, the last of which differs from the ones before.
C18_Witness ==
  \E o \in Ops :
    /\ maxRetries[o] = CONFIG_maxRetries
    /\ opState[o] = "failed"
    /\ Len(hist[o]) = CONFIG_maxRetries + 1
    /\ \A k \in 1..Len(hist[o]) : SpecRetryable(hist[o][k])
    /\ FailureMessage(hist[o][Len(hist[o])]) # FailureMessage(hist[o][1])
    /\ outcome[o].msg = FailureMessage(hist[o][Len(hist[o])])

\* The batches that were submitted, and the size of a batch.
Batches == {b \in Ops : batches[b].status # "none"}
SizeOf(b) == Cardinality({o \in Ops : batchOf[o] = b})
Completed(o) == opState[o] \in {"ok", "failed"}

\* The outcome the specification expects at position i of batch b for an
\* operation that has completed: its own result, or BATCH_ITEM_FAILED with
\* its index and the message of its own error.
ExpectedItem(b, i) ==
  LET o == b + i IN
  IF opState[o] = "ok"
    THEN [success |-> TRUE, data |-> Some(hist[o][Len(hist[o])]), index |-> Some(i),
          error |-> Null]
    ELSE [success |-> FALSE, data |-> Null, index |-> Null,
          error |-> Some([code |-> "BATCH_ITEM_FAILED",
                          message |-> <<outcome[o].attempts,
                                        FailureMessage(hist[o][Len(hist[o])])>>,
                          index |-> i])]

C20_FailFastOutcome ==
  \A b \in Batches :
    batches[b].failFast =>
      /\ batches[b].status = "rejected" <=> \E o \in Ops : batchOf[o] = b /\ opState[o] = "failed"
      /\ batches[b].status = "resolved" <=> \A o \in Ops : batchOf[o] = b => opState[o] = "ok"
      /\ batches[b].status = "rejected" =>
           /\ batches[b].results = <<>>
           /\ \E o \in Ops : /\ batchOf[o] = b /\ opState[o] = "failed"
                              /\ batches[b].error = outcome[o]
      /\ batches[b].status = "resolved" =>
           /\ Len(batches[b].results) = SizeOf(b)
           /\ \A i \in 0..(SizeOf(b) - 1) :
                /\ batches[b].results[i + 1].value = ExpectedItem(b, i)
                /\ batches[b].results[i + 1].value.success

\* C20 (steps): the error of a rejected failFast batch is the error of the
\* operation that failed in the step of the rejection, before which none of
\* the batch had failed, and later failures do not change it.
C20_FirstFailureWins ==
  \A b \in Ops :
    /\ (batches[b].status = "pending" /\ batches'[b].status = "rejected") =>
         \E o \in Ops :
           /\ batchOf[o] = b /\ opState[o] # "failed" /\ opState'[o] = "failed"
           /\ \A p \in Ops : batchOf[p] = b => opState[p] # "failed"
           /\ batches'[b].error = outcome'[o]
    /\ batches[b].status \in {"rejected", "resolved"} =>
         /\ batches'[b].status = batches[b].status
         /\ batches'[b].error = batches[b].error
         /\ batches'[b].results = batches[b].results

\* C20: in failFast mode ExecuteBatch fails with the error of the operation
\* that failed first and returns no per-item outcomes; if none fails it
\* returns the N success outcomes in submission order.
C20_FailFastFirstError == []C20_FailFastOutcome /\ [][C20_FirstFailureWins]_vars

\* A failFast batch was rejected with the error of one operation, and
\* another of its operations has failed since with a different error.
C20_Witness ==
  \E b \in Batches : \E o, p \in Ops :
    /\ batches[b].failFast /\ batches[b].status = "rejected"
    /\ batchOf[o] = b /\ batchOf[p] = b
    /\ opState[o] = "failed" /\ opState[p] = "failed"
    /\ outcome[o] # outcome[p]
    /\ batches[b].error = outcome[o]

\* The calls of the progress callback of batch b so far.
ProgressCalls(b) == batches[b].progress

\* C21: the progress callback of a batch of N operations has been called
\* once for every operation that has completed and for no other: call number
\* k carries completed = k and total = N, the index of an operation that has
\* completed, and an error exactly when that operation failed (its error);
\* no index is reported twice.  When the batch is over, completed has taken
\* each of 1..N once, in increasing order.
C21_ProgressOncePerOperation ==
  \A b \in Batches :
    batches[b].onProgress =>
      /\ Len(ProgressCalls(b)) = Cardinality({o \in Ops : batchOf[o] = b /\ Completed(o)})
      /\ Len(ProgressCalls(b)) <= SizeOf(b)
      /\ \A k \in 1..Len(ProgressCalls(b)) :
           LET call == ProgressCalls(b)[k]
               o == b + call.index
           IN /\ call.completed = k
              /\ call.total = SizeOf(b)
              /\ call.index \in 0..(SizeOf(b) - 1)
              /\ Completed(o)
              /\ (call.error # Null) <=> (opState[o] = "failed")
              /\ opState[o] = "failed" => call.error = Some(outcome[o])
              /\ \A j \in 1..Len(ProgressCalls(b)) :
                   j # k => ProgressCalls(b)[j].index # call.index

\* All MaxBatch operations of a batch were reported, the last one of the
\* array first, one with an error and one without.
C21_Witness ==
  \E b \in Batches :
    /\ batches[b].onProgress
    /\ SizeOf(b) = MaxBatch
    /\ Len(ProgressCalls(b)) = MaxBatch
    /\ ProgressCalls(b)[1].index = MaxBatch - 1
    /\ \E k \in 1..MaxBatch : ProgressCalls(b)[k].error # Null
    /\ \E k \in 1..MaxBatch : ProgressCalls(b)[k].error = Null

\* What the latest step of the executor, a getStats call, returned.
StatsRead == lastStats # Null

\* C22 (first half): a getStats call changes no counter.
C22_GetStatsReadsOnly == StatsRead' => stats' = stats

\* C22 (second half): as long as no submission, admission, completion or
\* resetStats has followed a getStats call, a further getStats call returns
\* the value that call returned.
C22_NextReadIdentical == StatsRead => Snapshot(stats) = lastStats[1]

\* C22: getStats changes no counter, and two consecutive getStats calls with
\* no step of the executor and no resetStats between them return identical
\* values.
C22_GetStatsIdempotent == []C22_NextReadIdentical /\ [][C22_GetStatsReadsOnly]_vars

\* getStats is called while a request is active, after one of three requests
\* has succeeded on a retry: both rates are '33.33%'.
C22_Witness ==
  /\ StatsRead
  /\ lastStats[1].activeRequests > 0
  /\ lastStats[1].totalRequests = 3
  /\ lastStats[1].retryRate = Some(3333)
  /\ lastStats[1].successRate = Some(3333)

HoldsSlot(o) == opState[o] \in {"running", "sleeping"}

\* C25 (slot): an operation whose caller has cancelled it holds no slot.
C25_CancelledHoldsNoSlot == \A o \in cancelled : ~HoldsSlot(o)

\* C25 (retries): an operation whose caller has cancelled it makes no
\* further attempt.
C25_CancelledMakesNoAttempt == \A o \in cancelled : calls'[o] = calls[o]

\* C25: a caller can cancel a queued or in-flight operation; a cancelled
\* operation releases its concurrency slot immediately and makes no further
\* retry attempts.
C25_CancelReleasesSlot ==
  []C25_CancelledHoldsNoSlot /\ [][C25_CancelledMakesNoAttempt]_vars

\* C26: no attempt holds a slot indefinitely: an attempt whose remote call
\* never responds is ended, and its slot is released.
C26_StalledAttemptEnds ==
  \A o \in Ops : (o \in stalled /\ HoldsSlot(o)) ~> ~HoldsSlot(o)

\* ------------------------------------------------- composite RESTlet
Finished(v) == inv[v].pc = "done"
ParentExists(v) == inv[v].projectId # NoProject /\ inv[v].projectId \in remoteProjects
Failure(resp) == ~resp.success /\ (resp.thrown \/ resp.error # Null)
Requested(v) == Len(TasksOf(inv[v].requestBody))

\* C2: when an invocation of post has terminated, its project record exists
\* in NetSuite if and only if it returned success or its rollback delete failed.
C2_ParentIffSuccessOrRollbackFailed ==
  \A v \in Invs :
    Finished(v) =>
      (ParentExists(v) <=> (inv[v].response.success \/ inv[v].rollback = "failed"))

\* C6: if the creation of task i fails after the project and tasks 0..i-1
\* were created, post issues a delete of the project and returns
\* TASK_CREATE_FAILED with the project id, partialTasksCreated = i and
\* totalTasksRequested = N.
C6_TaskFailureRollsBack ==
  \A v \in Invs :
    (Finished(v) /\ inv[v].failedAt >= 0) =>
      /\ inv[v].deletes = 1
      /\ inv[v].response.returned
      /\ inv[v].response.error # Null
      /\ inv[v].response.error[1].code = "TASK_CREATE_FAILED"
      /\ inv[v].response.error[1].details =
           [projectId |-> inv[v].projectId,
            partialTasksCreated |-> inv[v].failedAt,
            totalTasksRequested |-> Requested(v)]

\* The statement of C6 for the failures of tasks that are objects, whose
\* record.save() throws.
C6_ObjectTaskFailureRollsBack ==
  \A v \in Invs :
    (/\ Finished(v)
     /\ inv[v].failedAt >= 0
     /\ TasksOf(inv[v].requestBody)[inv[v].failedAt + 1] = "object") =>
      /\ inv[v].deletes = 1
      /\ inv[v].response.error # Null
      /\ inv[v].response.error[1].code = "TASK_CREATE_FAILED"
      /\ inv[v].response.error[1].details =
           [projectId |-> inv[v].projectId,
            partialTasksCreated |-> inv[v].failedAt,
            totalTasksRequested |-> Requested(v)]

\* A response without the internal ids NetSuite happened to hand out.
WithoutIds(resp) ==
  IF resp.error = Null THEN resp
  ELSE [resp EXCEPT !.error = Some([code |-> resp.error[1].code,
                                    message |-> <<resp.error[1].message[1],
                                                  resp.error[1].message[2], 0>>,
                                    details |-> [resp.error[1].details
                                                   EXCEPT !.projectId = 0]])]

\* C7: the failure returned when the rollback delete failed differs from the
\* failure returned when the rollback succeeded: it tells the caller that the
\* project was not removed.
C7_RollbackFailureFlagged ==
  \A a, b \in Invs :
    (/\ Finished(a) /\ inv[a].rollback = "failed"
     /\ Finished(b) /\ inv[b].rollback = "ok") =>
      WithoutIds(inv[a].response) # WithoutIds(inv[b].response)

\* C8: an invocation that fails before a project exists (validation fails,
\* or the project save fails) ends with a failure, has attempted no task
\* creation, has issued no delete and has left no record.
C8_EarlyFailureCreatesNothing ==
  \A v \in Invs :
    (/\ Finished(v)
     /\ \/ inv[v].requestBody.project # "ok"
        \/ inv[v].projectId = NoProject) =>
      /\ Failure(inv[v].response)
      /\ inv[v].projectId = NoProject
      /\ inv[v].taskCreates = 0
      /\ inv[v].deletes = 0
      /\ inv[v].records = {}

\* One invocation was rejected by the validation for its missing customerId
\* and another one failed to save the project, both with tasks requested,
\* while NetSuite holds records.
C8_Witness ==
  \E a, b \in Invs :
    /\ Finished(a) /\ inv[a].requestBody.project = "noCustomerId" /\ Requested(a) > 0
    /\ Finished(b) /\ inv[b].requestBody.project = "ok" /\ Requested(b) > 0
    /\ inv[b].projectId = NoProject

\* C9: if the project and all N tasks were created, post returns success with
\* the project id, the N task ids in the order of the tasks array and
\* taskCount N, and NetSuite holds that project with exactly those N tasks.
C9_SuccessReturnsAllIds ==
  \A v \in Invs :
    (Finished(v) /\ inv[v].projectId # NoProject /\ inv[v].failedAt = -1) =>
      LET resp == inv[v].response
          children == {t \in remoteTasks : t.company = inv[v].projectId}
      IN /\ resp.success /\ resp.returned /\ resp.error = Null /\ resp.data # Null
         /\ resp.data[1].projectId = inv[v].projectId
         /\ resp.data[1].taskCount = Requested(v)
         /\ Len(resp.data[1].taskIds) = Requested(v)
         /\ \A k \in 1..Requested(v) :
              \E t \in children : t.id = resp.data[1].taskIds[k] /\ t.index = k - 1
         /\ inv[v].projectId \in remoteProjects
         /\ Cardinality(children) = Requested(v)
         /\ inv[v].records = {inv[v].projectId} \cup {t.id : t \in children}

\* Every invocation created its project and MaxTasks tasks.
C9_Witness ==
  \A v \in Invs :
    /\ Finished(v) /\ inv[v].response.success
    /\ Requested(v) = MaxTasks
    /\ Cardinality(remoteTasks) = NumInvs * MaxTasks

\* What post returned, for the invocations that returned a value.
Returned(v) == Finished(v) /\ inv[v].response.returned

\* C24: every value post returns is an envelope: with success = true, data
\* is non-null and error is null; with success = false, data is null and
\* error is non-null with a code and a message.
C24_ReturnsEnvelope ==
  \A v \in Invs :
    Returned(v) =>
      LET resp == inv[v].response
      IN IF resp.success
           THEN resp.data # Null /\ resp.error = Null
           ELSE /\ resp.data = Null
                /\ resp.error # Null
                /\ resp.error[1].code # ""
                /\ resp.error[1].message[1] # ""

\* One invocation returned the success envelope, another one the error
\* envelope of an error that had neither a name nor a message.
C24_Witness ==
  \E v, u \in Invs :
    /\ Returned(v) /\ inv[v].response.success
    /\ Returned(u) /\ ~inv[u].response.success
    /\ inv[u].response.error[1].code = "COMPOSITE_CREATE_ERROR"
    /\ inv[u].response.error[1].message[1] = "Unknown error occurred"

\* The indices of the tasks whose creation has been started.
Attempted(v) == inv[v].attempted

\* C27: the tasks are attempted in the order of the request, from index 0,
\* and the creation of task i+1 is not started before the outcome of task i
\* is known: every attempt but the latest has ended in a created task, and
\* the latest one has either done so or failed.
C27_TasksOneAtATimeInOrder ==
  \A v \in Invs :
    /\ \A k \in 1..Len(Attempted(v)) : Attempted(v)[k] = k - 1
    /\ Len(Attempted(v)) <= Requested(v)
    /\ \/ Len(inv[v].createdTaskIds) = Len(Attempted(v))
       \/ /\ Len(inv[v].createdTaskIds) = Len(Attempted(v)) - 1
          /\ inv[v].failedAt = Len(Attempted(v)) - 1

\* All the tasks of a request of MaxTasks tasks were attempted, and the last
\* one failed.
C27_Witness ==
  \E v \in Invs :
    /\ Finished(v)
    /\ Requested(v) = MaxTasks
    /\ Len(Attempted(v)) = MaxTasks
    /\ inv[v].failedAt = MaxTasks - 1

\* C28: after the creation of task i has failed, post issues exactly one
\* further remote operation, a delete of the project: record.delete is called
\* once (for the project: post has no other delete) and createProjectTask is
\* not called for the tasks i+1..N-1.
C28_FailureIssuesOneDelete ==
  \A v \in Invs :
    (Finished(v) /\ inv[v].failedAt >= 0) =>
      /\ inv[v].deletes = 1
      /\ inv[v].taskCreates = inv[v].failedAt + 1
      /\ Len(Attempted(v)) = inv[v].failedAt + 1

\* The statement of C28 for the failures of tasks that are objects, whose
\* record.save() throws.
C28_ObjectTaskFailureIssuesOneDelete ==
  \A v \in Invs :
    (/\ Finished(v)
     /\ inv[v].failedAt >= 0
     /\ TasksOf(inv[v].requestBody)[inv[v].failedAt + 1] = "object") =>
      /\ inv[v].deletes = 1
      /\ inv[v].taskCreates = inv[v].failedAt + 1
      /\ Len(Attempted(v)) = inv[v].failedAt + 1

\* How many times the creation of the task at index idx has been attempted.
Attempts(v, idx) ==
  Cardinality({k \in 1..Len(Attempted(v)) : Attempted(v)[k] = idx})

\* The creation of a task has failed and post has gone on to the rollback
\* or has ended.
TaskFailed(v) == inv[v].failedAt >= 0 /\ inv[v].pc \in {"rollback", "done"}

HasBadServiceItem(v) ==
  \E k \in 1..Requested(v) : TasksOf(inv[v].requestBody)[k] = "badServiceItem"

\* C30: a request with a task whose service item cannot be set ends in an
\* error response and leaves no project record in NetSuite.
C30_BadServiceItemRollsBack ==
  \A v \in Invs :
    (Finished(v) /\ HasBadServiceItem(v)) =>
      /\ Failure(inv[v].response)
      /\ ~ParentExists(v)

\* ------------------------------------------------------------ token cache
Given(c) == caller[c].ret

\* C10 as stated: every token returned has, at the moment it is returned, an
\* expiry more than the safety margin in the future, whether it comes from
\* the cache or from a fresh exchange.
C10_ReturnedOutsideMargin ==
  \A c \in Callers :
    Given(c).status = "token" => Given(c).expiresAt > Given(c).at + 300 * 1000

\* C10, amended: a token returned from the cache has, at that moment, an expiry
\* more than the safety margin in the future; a token returned from a fresh
\* exchange has the expiry now + expires_in, which is beyond the margin
\* exactly when the endpoint granted more than 300 s.
C10_CachedOutsideMargin ==
  \A c \in Callers :
    Given(c).status = "token" =>
      /\ Given(c).from = "cache" => Given(c).expiresAt > Given(c).at + 300 * 1000
      /\ Given(c).from = "exchange" =>
           /\ Given(c).expiresAt = Given(c).at + Given(c).expires_in * 1000
           /\ (Given(c).expiresAt > Given(c).at + 300 * 1000) <=> (Given(c).expires_in > 300)

\* A caller was given the cached token after time had passed, while the
\* cache later holds a token that is inside the margin.
C10_Witness ==
  \E c \in Callers :
    /\ Given(c).status = "token" /\ Given(c).from = "cache" /\ Given(c).at > 0
    /\ tokenCache # Null /\ tokenCache[1].expiresAt <= now + 300 * 1000

\* The cached token is outside the safety margin, as the specification puts it.
OutsideMargin == tokenCache # Null /\ tokenCache[1].expiresAt > now + 300 * 1000

\* Caller c enters getAccessToken in this step.
Calls(c) == caller[c].pc \in {"idle", "done"} /\ caller'[c] # caller[c]

\* The exchange caller c waits for is answered in this step.
Answered(c) == caller[c].pc = "exchanging" /\ caller'[c].pc = "done"

Exchanging == {c \in Callers : caller[c].pc = "exchanging"}

\* C11: while the cache holds no usable token, overlapping GetToken calls
\* have at most one token exchange in flight: no second exchange is started
\* while one is awaited.
C11_SingleFlight == Cardinality(Exchanging) <= 1

\* C12: a GetToken call made while the cached token is outside the safety
\* margin returns that token at once, sends nothing to the token endpoint and
\* leaves the cache as it is (so a call that follows a call whose token is
\* still outside the margin adds no exchange).
C12_CachedTokenReturned ==
  [][\A c \in Callers :
       (Calls(c) /\ OutsideMargin) =>
         /\ caller'[c].pc = "done"
         /\ caller'[c].ret.status = "token"
         /\ caller'[c].ret.from = "cache"
         /\ caller'[c].ret.token = tokenCache[1].token
         /\ tokenCache' = tokenCache
         /\ started' = started
         /\ exchanges' = exchanges]_vars

\* One caller obtained a token by an exchange and the other one was later
\* given the same token from the cache; one exchange was made in total.
C12_Witness ==
  \E a, b \in Callers :
    /\ Given(a).status = "token" /\ Given(a).from = "exchange"
    /\ Given(b).status = "token" /\ Given(b).from = "cache"
    /\ Given(b).token = Given(a).token
    /\ Given(b).at > Given(a).at
    /\ started = 1 /\ exchanges = 1

\* C13: a GetToken call made while the cache holds no token or one inside the
\* safety margin sends exactly one request to the token endpoint (unless it
\* fails before); when that request is answered with a token, the cache holds
\* that newly issued token with expiresAt = now + expires_in (s), whatever
\* it held before.
C13_RefreshReplacesCache ==
  [][\A c \in Callers :
       /\ (Calls(c) /\ ~OutsideMargin) =>
            \/ caller'[c].pc = "exchanging" /\ started' = started + 1
            \/ caller'[c].ret.status = "error" /\ started' = started
       /\ (Answered(c) /\ caller'[c].ret.status = "token") =>
            /\ started' = started
            /\ exchanges' = exchanges + 1
            /\ caller'[c].ret.token > exchanges
            /\ caller'[c].ret.from = "exchange"
            /\ tokenCache' = Some([token |-> caller'[c].ret.token,
                                   expiresAt |-> now + caller'[c].ret.expires_in * 1000])]_vars

\* A token that was inside the safety margin but not expired was replaced in
\* the cache by the token of a later refresh.
C13_Witness ==
  \E a, b \in Callers :
    /\ Given(a).status = "token" /\ Given(a).from = "exchange"
    /\ Given(b).status = "token" /\ Given(b).from = "exchange"
    /\ Given(b).token = Given(a).token + 1
    /\ Given(a).expiresAt > Given(b).at
    /\ Given(a).expiresAt <= Given(b).at + 300 * 1000
    /\ Given(b).at > Given(a).at
    /\ tokenCache = Some([token |-> Given(b).token,
                          expiresAt |-> Given(b).at + Given(b).expires_in * 1000])

\* The failures of the token exchange itself.
ExchangeFailed(r) ==
  r.status = "error" /\ r.error \in {"OAuth token exchange failed",
                                     "No access_token in OAuth response"}

\* C14: no step of a GetToken call whose exchange fails changes the token
\* cache: neither the step that starts the exchange nor the step in which
\* the call fails.
C14_FailedExchangeKeepsCache ==
  [][\A c \in Callers :
       /\ (Calls(c) /\ caller'[c].pc = "exchanging") => tokenCache' = tokenCache
       /\ (Answered(c) /\ caller'[c].ret.status # "token") =>
            /\ ExchangeFailed(caller'[c].ret)
            /\ tokenCache' = tokenCache]_vars

\* An exchange failed while the cache held the token of an earlier exchange,
\* and the cache still holds that token.
C14_Witness ==
  \E a, b \in Callers :
    /\ Given(a).status = "token" /\ Given(a).from = "exchange"
    /\ ExchangeFailed(Given(b))
    /\ Given(b).at > Given(a).at
    /\ tokenCache = Some([token |-> Given(a).token, expiresAt |-> Given(a).expiresAt])

\* C15: a GetToken call that ends while the cache holds a token inside the
\* safety margin but not yet expired obtains a token: when its refresh
\* fails it is still given the cached one.
C15_StaleTokenObtainable ==
  [][\A c \in Callers :
       (/\ Answered(c)
        /\ tokenCache # Null
        /\ tokenCache[1].expiresAt > now
        /\ tokenCache[1].expiresAt <= now + 300 * 1000) =>
         caller'[c].ret.status = "token"]_vars

\* A required setting is missing.
ConfigIncomplete ==
  \/ config["accountId"] = "" \/ config["clientId"] = ""
  \/ config["certId"] = "" \/ config["privateKey"] = ""

\* C16: while a required setting is missing, nothing is ever sent to the
\* token endpoint and every GetToken call ends with the configuration error.
C16_MissingConfigFailsFast ==
  ConfigIncomplete =>
    /\ started = 0
    /\ exchanges = 0
    /\ tokenCache = Null
    /\ \A c \in Callers :
         /\ caller[c].pc # "exchanging"
         /\ caller[c].pc = "done" =>
              /\ Given(c).status = "error"
              /\ Given(c).error = "Missing OAuth M2M configuration"

\* With only the private key missing, every caller has called and failed.
C16_Witness ==
  /\ config["privateKey"] = ""
  /\ \A k \in {"accountId", "clientId", "certId"} : config[k] # ""
  /\ \A c \in Callers : caller[c].pc = "done" /\ Given(c).status = "error"

\* ------------------------------------------------------------ SuiteQL
\* The statuses the executor is to take for transient.
Answered5xx(o) == lastHttp[o] # Null /\ lastHttp[o][1].status \in retryableStatuses

\* C31: a query whose response has status 429, 500, 502, 503 or 504 is taken
\* for a retryable failure and retried up to maxRetries times: it does not
\* fail before maxRetries + 1 attempts have been made.
C31_RetryableStatusRetried ==
  \A o \in Ops :
    (opState[o] = "failed" /\ Answered5xx(o)) => calls[o] = maxRetries[o] + 1

\* The statement of C31 for the responses whose body names the request
\* limit: the message of the thrown error contains the body.
C31_RequestLimitBodyRetried ==
  \A o \in Ops :
    (/\ opState[o] = "failed"
     /\ lastHttp[o] # Null
     /\ lastHttp[o][1].text = "SSS_REQUEST_LIMIT_EXCEEDED") => calls[o] = maxRetries[o] + 1

\* ---------------------------------------------------- request executor
\* C32: whenever a call fails, the attempt count its error reports is the
\* number of attempts made, 1 for a failure that is terminal on the first
\* attempt.
C32_ReportedAttemptsAreMade ==
  \A o \in Ops :
    opState[o] = "failed" => outcome[o].attempts = calls[o]

\* ------------------------------------------------------------ SuiteQL
\* C33: every attempt of a query, a retry and an attempt started after a
\* wait in the queue included, is sent with a token getAccessToken would
\* return at that time.
C33_NoStaleTokenSent == sentStale = {}

\* ---------------------------------------------------- request executor
\* An operation of a failFast batch whose requestFn has not been invoked.
NotStarted(o) == batchOf[o] # 0 /\ batches[batchOf[o]].failFast /\ calls[o] = 0

\* No step starts an operation of a failFast batch that is rejected by then:
\* neither a later step, nor the step of the failure itself, in which the
\* failed function gives its slot back after it has settled.
C34_NotExecuted ==
  \A o \in Ops :
    (NotStarted(o) /\ batches'[batchOf[o]].status = "rejected") => calls'[o] = 0

\* C34: in failFast mode, once the first failure has occurred, the
\* operations of the batch that have not started yet are not executed.
C34_FailFastStopsBatch == [][C34_NotExecuted]_vars


\* ---- C35
\* The base delay the claim names for failed attempt number k (0-based).
C35_Base(k) == IF k >= 5 THEN maxRetryDelay ELSE initialRetryDelay * Pow2(k)

\* C35: the backoff waited after failed attempt number k (0-based) is at
\* least min(initialRetryDelay * 2^k, maxRetryDelay) and at most 1.2 times
\* that value; without jitter the delays are 1000, 2000, 4000, ... capped at
\* 32000 ms, and they never decrease from one attempt to the next.
C35_BackoffWithinBounds ==
  \A i \in 1..Len(waited) :
    LET k == i - 1
        base == Min({initialRetryDelay * Pow2(k), maxRetryDelay})
    IN /\ waited[i].delay >= base
       /\ 10 * waited[i].delay <= 12 * base
       /\ base = C35_Base(k)
       /\ waited[i].random = 0 => waited[i].delay = base
       /\ (i > 1 /\ waited[i].random = 0 /\ waited[i - 1].random = 0)
            => waited[i - 1].delay <= waited[i].delay

\* Witness: an operation has slept after its attempt number 6, where the
\* doubling has passed the cap, with the largest jitter.
C35_Witness ==
  /\ Len(waited) = 7
  /\ waited[7].random = 95
  /\ waited[7].delay > maxRetryDelay
  /\ waited[1].delay = initialRetryDelay

\* ---- C36
\* The operations that have been submitted.
C36_Submitted == {o \in Ops : opState[o] # "idle"}

C37_SucceededOnRetry == {o \in Ops : opState[o] = "ok" /\ calls[o] > 1}

\* C37: without resetStats, retriedRequests is the number of operations that
\* succeeded after at least one failed attempt, so an operation is counted at
\* most once, one that was retried and finally failed is not counted, and
\* retriedRequests never exceeds successfulRequests.
C37_RetriedCountsSuccessAfterRetry ==
  /\ stats.retriedRequests = Cardinality(C37_SucceededOnRetry)
  /\ stats.retriedRequests <= stats.successfulRequests

\* Witness: an operation that made three attempts and succeeded has been
\* counted once, next to one that was retried and failed and one that
\* succeeded at once.
C37_Witness ==
  /\ stats.retriedRequests = 1
  /\ stats.successfulRequests = 2
  /\ \E a, b \in Ops :
       /\ opState[a] = "ok" /\ calls[a] = 3
       /\ opState[b] = "failed" /\ calls[b] > 1

\* ---- C38
\* The operations waiting out a backoff delay.
C38_Sleeping == {o \in Ops : opState[o] = "sleeping"}

\* A step in which the operations in backoff hold every slot admits a queued
\* operation only if one of the sleeping operations completes in that step;
\* and an operation in backoff is still holding its slot after any step that
\* is not the end of its sleep.
C38_NoAdmissionDuringBackoff ==
  /\ Cardinality(C38_Sleeping) = concurrencyLimit
       => \A q \in Ops :
            (opState[q] = "queued" /\ opState'[q] # "queued")
              => \E o \in C38_Sleeping : Settled(opState'[o])
  /\ \A o \in C38_Sleeping :
       /\ opState'[o] \in {"sleeping", "running", "ok", "failed"}
       /\ opState'[o] \in {"sleeping", "running"} => activeCount' >= 1

\* C38: an operation keeps its concurrency slot for its whole retry sequence,
\* its backoff delays included: the slots in use are those of the running and
\* the sleeping operations, and while concurrencyLimit operations are in
\* backoff no queued operation is admitted until one of them completes.
C38_SlotHeldDuringBackoff ==
  /\ [](activeCount = Cardinality(Active) /\ activeCount <= concurrencyLimit)
  /\ [][C38_NoAdmissionDuringBackoff]_vars

\* Witness: every slot is held by an operation in backoff while another
\* operation waits in the queue.
C38_Witness ==
  /\ Cardinality(C38_Sleeping) = concurrencyLimit
  /\ activeCount = concurrencyLimit
  /\ queue # <<>>

\* ---- C39
\* C39: provided every attempt of every operation eventually returns or
\* fails, every submitted operation is eventually admitted and eventually
\* completes, with success or failure, and every completion gives the slot
\* back: the slots in use are those of the operations admitted and not yet
\* completed, so once all of them have completed no slot is in use.
C39_EveryOperationCompletes ==
  /\ \A o \in Ops : (opState[o] = "queued") ~> (calls[o] >= 1)
  /\ \A o \in Ops : (opState[o] = "queued") ~> Settled(opState[o])
  /\ [](activeCount = Cardinality(Active))
  /\ \A o \in Ops : (opState[o] = "queued") ~> (Active = {} /\ activeCount = 0)

\* Witness: all operations have completed, one with a success, one with a
\* failure that is not retried and one after all its attempts failed, the
\* last of them after waiting in the queue, and no slot is in use.
C39_Witness ==
  /\ \A o \in Ops : Settled(opState[o])
  /\ opState[1] = "failed" /\ calls[1] = CONFIG_maxRetries + 1
  /\ \E a, b \in Ops : /\ opState[a] = "ok"
                       /\ opState[b] = "failed" /\ calls[b] = 1
  /\ activeCount = 0
  /\ queue = <<>>
====
